---- MODULE Spec2Model ----
(***************************************************************************)
(* ChunkStore (src/src/chunk_store/mod.rs): a quota-bounded, disk-backed   *)
(* key/value store.  Every accepted put spawns a "background_put" thread   *)
(* that writes the chunk file; the root directory is guarded by an         *)
(* exclusive lock on the file "lock" and removed when the store is         *)
(* dropped.                                                                *)
(*                                                                         *)
(* The disk (root directory, lock file, chunk files) is shared by every    *)
(* store instance built on the same root path; the other variables are     *)
(* the fields of each instance.                                            *)
(***************************************************************************)
EXTENDS Integers, Sequences, FiniteSets, TLC

VARIABLES
    dir,            \* the root directory exists
    lockFile,       \* the inode of the file root/lock, 0 when there is no such file
    lockHolder,     \* inode -> the instance whose handle holds its exclusive flock, 0 if none
    files,          \* file name -> [exists, data]: the other files of the root directory
    pc,             \* instance -> position in new / open / drop
    fd,             \* instance -> the inode its lock_file handle is open on, 0 if none
    max_space,      \* instance -> field max_space
    used_space,     \* instance -> field used_space
    workers,        \* instance -> (chunk name -> background_put thread and its flag)
    file_name_map,  \* instance -> (serialised key -> chunk name)
    threads,        \* instance -> chunk name -> number of its background_put threads alive
    failed,         \* instance -> one of its background_put threads has dropped an I/O error
    hist,           \* the history of the keys of each instance, where it is recorded
    acc,            \* instance -> key -> the value of the key's last put, if accepted
    last,           \* the last call that returned: operation, arguments, result
    mm,             \* the MaidManager persona: accounts, request_cache, clock, messages sent
    pay             \* the Payments duty: the replica's state and the result of the last call

vars == <<dir, lockFile, lockHolder, files, pc, fd, max_space, used_space,
          workers, file_name_map, threads, failed, hist, acc, last, mm, pay>>

disk == <<dir, lockFile, lockHolder, files>>
guard == <<pc, fd>>
node == <<mm, pay>>

----------------------------------------------------------------------------
(* Bounds and inputs *)

\* capacity handed to new()
MaxSpace == 17
\* longest value (a Vec<u8>) that is put
MaxValueLen == 1
\* store instances built on the one root path
NumStores == 2
\* a partial write stops at a multiple of WriteUnit bytes
WriteUnit == 4

Stores == 1..NumStores

\* inodes a lock file can have: one per open handle and one at root/lock
Inodes == 1..(NumStores + 1)

\* Keys are (u8, u8, u8, u8) tuples.  The first two have the same truncated
\* SHA-256 name: sha256(00 00 a0 36) and sha256(00 00 b2 54) both start f4580cc2.
KeyA == <<0, 0, 160, 54>>
KeyB == <<0, 0, 178, 84>>
KeyC == <<0, 0, 0, 1>>
Keys == {KeyA, KeyB, KeyC}

\* Values are Vec<u8> of bytes 1
Values == {[i \in 1..n |-> 1] : n \in 0..MaxValueLen}

\* The max name length for a chunk file.
MAX_CHUNK_FILE_NAME_LENGTH == 104
LOCK_FILE_NAME == "lock"
\* the 104-character name "00...0" of the probe file of lock_and_clear_dir
ProbeName == "0*104"

\* bytes of the length prefix of a serialised Vec<u8>
LenPrefixBytes == 8

----------------------------------------------------------------------------
(* Serialisation and key naming *)

\* serialisation::serialise of a (u8,u8,u8,u8): its four bytes
serialise_key(key) == <<key[1], key[2], key[3], key[4]>>

\* serialisation::deserialise::<Key>: four bytes, else an error
deserialise_key(bytes) ==
    IF Len(bytes) = 4
    THEN [ok |-> TRUE, key |-> <<bytes[1], bytes[2], bytes[3], bytes[4]>>]
    ELSE [ok |-> FALSE, key |-> <<>>]

\* the u64 length prefix of a serialised vector (lengths below 256)
LenPrefix(n) == [i \in 1..LenPrefixBytes |-> IF i = LenPrefixBytes THEN n ELSE 0]

\* serialisation::serialise of a Vec<u8>: length prefix, then the bytes
serialise(value) == LenPrefix(Len(value)) \o value

\* serialisation::deserialise::<Value>: fails on a short or overlong buffer
deserialise(bytes) ==
    IF /\ Len(bytes) >= LenPrefixBytes
       /\ \A i \in 1..(LenPrefixBytes - 1) : bytes[i] = 0
       /\ Len(bytes) = LenPrefixBytes + bytes[LenPrefixBytes]
    THEN [ok |-> TRUE, value |-> SubSeq(bytes, LenPrefixBytes + 1, Len(bytes))]
    ELSE [ok |-> FALSE, value |-> <<>>]

\* sha256::hash(serialised_key).to_hex() truncated to 8 characters
Sha256Hex8(bytes) ==
    CASE bytes = <<0, 0, 160, 54>> -> "f4580cc2"
      [] bytes = <<0, 0, 178, 84>> -> "f4580cc2"
      [] bytes = <<0, 0, 0, 1>>    -> "b40711a8"

key_to_name(key) == Sha256Hex8(serialise_key(key))

ChunkNames == {key_to_name(k) : k \in Keys}
FileNames == ChunkNames \cup {ProbeName}

NoFile == [exists |-> FALSE, data |-> <<>>]
File(bytes) == [exists |-> TRUE, data |-> bytes]

----------------------------------------------------------------------------
(* Maps *)

MapInsert(m, k, v) == [x \in DOMAIN m \cup {k} |-> IF x = k THEN v ELSE m[x]]
MapRemove(m, k) == [x \in DOMAIN m \ {k} |-> m[x]]
EmptyMap == [x \in {} |-> 0]

----------------------------------------------------------------------------
(* The background_put thread of an accepted put (mod.rs 138-149) *)

\* A spawned thread: it has still to call File::create.  `off' counts the bytes
\* it has written, `fd' is its file handle: "none", "live" or, once the file has
\* been unlinked under it, "orphan"; `key' is the key of the put that spawned it.
Spawned(bytes, key) ==
    [pc |-> "create", completed |-> FALSE, bytes |-> bytes, off |-> 0, fd |-> "none",
     key |-> key]

\* the thread wrote every byte and passed sync_all
WroteAll(w) == w.off = Len(w.bytes)

\* a write that reports its bytes as written and leaves the file as it was
WriteAt_Nothing(data, off, chunk) == data

\* write_all through a handle at offset off: the bytes land at off+1.. of the file
WriteAt(data, off, chunk) ==
    [i \in 1..(IF Len(data) > off + Len(chunk) THEN Len(data) ELSE off + Len(chunk)) |->
        IF i > off /\ i <= off + Len(chunk) THEN chunk[i - off]
        ELSE IF i <= Len(data) THEN data[i] ELSE 0]

\* fs::remove_file / remove_dir_all of `names': handles open on them are orphaned
Unlink(w, names) ==
    [s \in Stores |->
        [n \in DOMAIN w[s] |->
            IF n \in names /\ w[s][n].fd = "live"
            THEN [w[s][n] EXCEPT !.fd = "orphan"] ELSE w[s][n]]]

\* the byte counts one write of the thread may transfer: all that is left, or less
WriteSizes(w) ==
    {m \in 1..(Len(w.bytes) - w.off) :
        m = Len(w.bytes) - w.off \/ (w.off + m) % WriteUnit = 0}

\* File::create(&file_path): creates or truncates the chunk file
WorkerCreate(s, n) ==
    /\ n \in DOMAIN workers[s]
    /\ workers[s][n].pc = "create"
    /\ dir
    /\ files' = [files EXCEPT ![n] = File(<<>>)]
    /\ workers' = [workers EXCEPT ![s][n].pc = "write", ![s][n].fd = "live"]
    /\ UNCHANGED <<dir, lockFile, lockHolder, guard, max_space, node, hist, threads, failed, used_space,
                   file_name_map, acc, last>>

\* file.write_all(&serialised_value), in one or several writes, then sync_all
WorkerWrite(s, n) ==
    /\ n \in DOMAIN workers[s]
    /\ workers[s][n].pc = "write"
    /\ \E m \in WriteSizes(workers[s][n]) :
        LET w == workers[s][n]
            chunk == SubSeq(w.bytes, w.off + 1, w.off + m)
            done == w.off + m = Len(w.bytes)
        IN  /\ files' = IF w.fd = "live"
                        THEN [files EXCEPT ![n] = File(WriteAt(files[n].data, w.off, chunk))]
                        ELSE files
            /\ workers' = [workers EXCEPT ![s][n].off = w.off + m,
                                          ![s][n].pc = IF done THEN "flag" ELSE "write"]
    /\ UNCHANGED <<dir, lockFile, lockHolder, guard, max_space, node, hist, threads, failed, used_space,
                   file_name_map, acc, last>>

\* File::create, write_all or sync_all returns an error: the closure drops it
\* (let _ = ...) and goes on to raise the flag
WorkerFail(s, n) ==
    /\ n \in DOMAIN workers[s]
    /\ workers[s][n].pc \in {"create", "write"}
    /\ workers' = [workers EXCEPT ![s][n].pc = "flag"]
    /\ failed' = [failed EXCEPT ![s] = TRUE]
    /\ UNCHANGED <<disk, guard, max_space, node, hist, threads, used_space, file_name_map, acc, last>>

\* a thread that raises its flag only when its write succeeded
WorkerFlag_OnlyOnSuccess(s, n) ==
    /\ n \in DOMAIN workers[s]
    /\ workers[s][n].pc = "flag"
    /\ WroteAll(workers[s][n])
    /\ workers' = [workers EXCEPT ![s][n].pc = "exit", ![s][n].completed = TRUE]
    /\ acc' = [acc EXCEPT ![s][workers[s][n].key].written = TRUE]
    /\ threads' = [threads EXCEPT ![s][n] = @ - 1]
    /\ UNCHANGED <<disk, guard, max_space, node, hist, failed, used_space, file_name_map, last>>

\* atomic_completed_clone.store(true); the thread ends
WorkerFlag(s, n) ==
    /\ n \in DOMAIN workers[s]
    /\ workers[s][n].pc = "flag"
    /\ workers' = [workers EXCEPT ![s][n].pc = "exit", ![s][n].completed = TRUE]
    /\ acc' = IF WroteAll(workers[s][n])
              THEN [acc EXCEPT ![s][workers[s][n].key].written = TRUE] ELSE acc
    /\ threads' = [threads EXCEPT ![s][n] = @ - 1]
    /\ UNCHANGED <<disk, guard, max_space, node, hist, failed, used_space, file_name_map, last>>

----------------------------------------------------------------------------
(* ChunkStore operations *)

\* a removal that does not join the thread of the removed entry
Joined_NoWait(w, name) == TRUE

\* a join of the threads of the other names in place of the key's own
Joined_OtherNames(w, name) == \A n \in DOMAIN w \ {name} : w[n].pc = "exit"

\* a join of every thread in the table
Joined_AllWorkers(w, name) == \A n \in DOMAIN w : w[n].pc = "exit"

\* dropping a Joiner blocks until its thread has ended
Joined(w, name) == name \in DOMAIN w => w[name].pc = "exit"

\* a clean-up that drops the entry of the key's name only
clean_up_threads_OwnNameOnly(w, name) == MapRemove(w, name)

\* clean_up_threads: drop the entry of the key's name, then every completed entry
clean_up_threads(w, name) ==
    LET rest == MapRemove(w, name)
        completed_threads == {n \in DOMAIN rest : rest[n].completed}
    IN  [n \in DOMAIN rest \ completed_threads |-> rest[n]]

\* a quota check that forgets the size of the new value
NotEnoughSpace_IgnoresSize(used, size, max) == used > max

\* a quota check that also refuses a value that fits exactly
NotEnoughSpace_OffByOne(used, size, max) == used + size >= max

\* the quota check of put
NotEnoughSpace(used, size, max) == used + size > max

\* cmp::min
Min(a, b) == IF a < b THEN a ELSE b

\* do_delete that debits the length of the file without the clamp
do_delete_used_NoClamp(used, file) ==
    IF file.exists THEN used - Len(file.data) ELSE used

\* do_delete that removes the file without debiting its length
do_delete_used_NoDebit(used, file) == used

\* do_delete: used_space after it (the file's actual length is debited, clamped)
do_delete_used(used, file) ==
    IF file.exists THEN used - Min(Len(file.data), used) ELSE used

\* get: open and read the chunk file, deserialise its contents
get(s, key) ==
    LET file == files[key_to_name(key)]
        parsed == deserialise(file.data)
    IN  IF ~(dir /\ file.exists) THEN [res |-> "NotFound", value |-> <<>>]
        ELSE IF parsed.ok THEN [res |-> "Ok", value |-> parsed.value]
        ELSE [res |-> "Serialisation", value |-> <<>>]

\* has: the serialised key is in file_name_map
has(s, key) == serialise_key(key) \in DOMAIN file_name_map[s]

\* keys: the keys of file_name_map that deserialise
keys(s) ==
    {deserialise_key(sk).key : sk \in {b \in DOMAIN file_name_map[s] : deserialise_key(b).ok}}

Returned(s, op, key, value, res, out) ==
    [store |-> s, op |-> op, key |-> key, value |-> value, res |-> res, out |-> out,
     used |-> IF op = "put" THEN used_space[s] ELSE 0,
     stored |-> op = "put" /\ has(s, key),
     found |-> IF (op = "put" /\ res = "Ok") \/ op = "delete"
               THEN IF files[key_to_name(key)].exists
                    THEN Len(files[key_to_name(key)].data) ELSE 0
               ELSE 0]

\* acc: the key's last put was accepted with `value' (and no delete followed);
\* `written': the thread of that put wrote the whole value and raised its flag
Accepted(value) == [has |-> TRUE, value |-> value, written |-> FALSE]
NotAccepted == [has |-> FALSE, value |-> <<>>, written |-> FALSE]

\* hist: `deleted': the last operation on the key was a delete; `replaced': the
\* value that the key's last accepted put replaced by a different one
NoHistory == [deleted |-> FALSE, replaced |-> {}]
Recorded(on) == [on |-> on, of |-> [s \in Stores |-> [k \in Keys |-> NoHistory]]]
AfterPut(s, key, value) ==
    IF hist.on
    THEN [hist EXCEPT !.of[s][key] =
            [deleted |-> FALSE,
             replaced |-> IF acc[s][key].has /\ acc[s][key].value # value
                          THEN {acc[s][key].value} ELSE {}]]
    ELSE hist
AfterDelete(s, key) ==
    IF hist.on
    THEN [hist EXCEPT !.of[s][key] = [deleted |-> TRUE, replaced |-> {}]]
    ELSE hist

\* self.file_name_map.insert(serialised_key, file_name)
\* a put that leaves the key out of the index
index_insert_Forgotten(m, serialised_key, file_name) == m

index_insert(m, serialised_key, file_name) == MapInsert(m, serialised_key, file_name)

\* a delete that leaves the key in file_name_map
index_remove_Forgotten(m, serialised_key) == m

\* self.file_name_map.remove(&serialised_key)
index_remove(m, serialised_key) == MapRemove(m, serialised_key)

\* a put that removes the old file and debits it before the quota check
Put_DeleteBeforeCheck(s, key, value) ==
    LET name == key_to_name(key)
        serialised_value == serialise(value)
        size == Len(serialised_value)
        reaped == clean_up_threads(workers[s], name)
        debited == do_delete_used(used_space[s], files[name])
    IN  /\ pc[s] = "open"
        /\ Joined(workers[s], name)
        /\ files' = [files EXCEPT ![name] = NoFile]
        /\ IF NotEnoughSpace(used_space[s], size, max_space[s])
           THEN /\ workers' = Unlink([workers EXCEPT ![s] = reaped], {name})
                /\ used_space' = [used_space EXCEPT ![s] = debited]
                /\ last' = Returned(s, "put", key, value, "NotEnoughSpace", <<>>)
                /\ UNCHANGED <<dir, lockFile, lockHolder, guard, max_space, node, hist, threads, failed,
                               file_name_map, acc>>
           ELSE /\ used_space' = [used_space EXCEPT ![s] = debited + size]
                /\ workers' = [Unlink([workers EXCEPT ![s] = reaped], {name})
                                 EXCEPT ![s] = MapInsert(@, name, Spawned(serialised_value, key))]
                /\ file_name_map' = [file_name_map EXCEPT
                                       ![s] = index_insert(@, serialise_key(key), name)]
                /\ acc' = [acc EXCEPT ![s][key] = Accepted(value)]
                /\ hist' = AfterPut(s, key, value)
                /\ threads' = [threads EXCEPT ![s][name] = @ + 1]
                /\ last' = Returned(s, "put", key, value, "Ok", <<>>)
                /\ UNCHANGED <<dir, lockFile, lockHolder, guard, max_space, node, failed>>

Put(s, key, value) ==
    LET name == key_to_name(key)
        serialised_value == serialise(value)
        size == Len(serialised_value)
        reaped == clean_up_threads(workers[s], name)
    IN  /\ pc[s] = "open"
        /\ Joined(workers[s], name)
        /\ IF NotEnoughSpace(used_space[s], size, max_space[s])
           THEN /\ workers' = [workers EXCEPT ![s] = reaped]
                /\ last' = Returned(s, "put", key, value, "NotEnoughSpace", <<>>)
                /\ UNCHANGED <<disk, guard, max_space, node, hist, threads, failed, used_space,
                               file_name_map, acc>>
           ELSE /\ used_space' = [used_space EXCEPT
                                    ![s] = do_delete_used(used_space[s], files[name]) + size]
                /\ files' = [files EXCEPT ![name] = NoFile]
                /\ workers' = [Unlink([workers EXCEPT ![s] = reaped], {name})
                                 EXCEPT ![s] = MapInsert(@, name, Spawned(serialised_value, key))]
                /\ file_name_map' = [file_name_map EXCEPT
                                       ![s] = index_insert(@, serialise_key(key), name)]
                /\ acc' = [acc EXCEPT ![s][key] = Accepted(value)]
                /\ hist' = AfterPut(s, key, value)
                /\ threads' = [threads EXCEPT ![s][name] = @ + 1]
                /\ last' = Returned(s, "put", key, value, "Ok", <<>>)
                /\ UNCHANGED <<dir, lockFile, lockHolder, guard, max_space, node, failed>>

Delete(s, key) ==
    LET name == key_to_name(key)
        reaped == clean_up_threads(workers[s], name)
    IN  /\ pc[s] = "open"
        /\ Joined(workers[s], name)
        /\ file_name_map' = [file_name_map EXCEPT ![s] = index_remove(@, serialise_key(key))]
        /\ used_space' = [used_space EXCEPT ![s] = do_delete_used(@, files[name])]
        /\ files' = [files EXCEPT ![name] = NoFile]
        /\ workers' = Unlink([workers EXCEPT ![s] = reaped], {name})
        /\ acc' = [acc EXCEPT ![s][key] = NotAccepted]
        /\ hist' = AfterDelete(s, key)
        /\ last' = Returned(s, "delete", key, <<>>, "Ok", <<>>)
        /\ UNCHANGED <<dir, lockFile, lockHolder, guard, max_space, node, threads, failed>>

\* delete when fs::remove_file fails in do_delete: the key has left the index
\* and the length of the file is debited before the removal is attempted; the
\* file stays and the call returns Error::Io
DeleteRemoveFails(s, key) ==
    LET name == key_to_name(key)
        reaped == clean_up_threads(workers[s], name)
    IN  /\ pc[s] = "open"
        /\ Joined(workers[s], name)
        /\ files[name].exists
        /\ file_name_map' = [file_name_map EXCEPT ![s] = index_remove(@, serialise_key(key))]
        /\ used_space' = [used_space EXCEPT ![s] = do_delete_used(@, files[name])]
        /\ workers' = [workers EXCEPT ![s] = reaped]
        /\ acc' = [acc EXCEPT ![s][key] = NotAccepted]
        /\ last' = Returned(s, "delete", key, <<>>, "Io", <<>>)
        /\ UNCHANGED <<disk, guard, max_space, node, hist, threads, failed>>

\* put when fs::remove_file fails in do_delete: the result is dropped
\* (let _ =), the length of the old file is debited, the file stays and the
\* new thread is spawned over it
PutRemoveFails(s, key, value) ==
    LET name == key_to_name(key)
        serialised_value == serialise(value)
        size == Len(serialised_value)
        reaped == clean_up_threads(workers[s], name)
    IN  /\ pc[s] = "open"
        /\ Joined(workers[s], name)
        /\ files[name].exists
        /\ ~NotEnoughSpace(used_space[s], size, max_space[s])
        /\ used_space' = [used_space EXCEPT
                            ![s] = do_delete_used(used_space[s], files[name]) + size]
        /\ workers' = [workers EXCEPT
                         ![s] = MapInsert(reaped, name, Spawned(serialised_value, key))]
        /\ file_name_map' = [file_name_map EXCEPT
                               ![s] = index_insert(@, serialise_key(key), name)]
        /\ acc' = [acc EXCEPT ![s][key] = Accepted(value)]
        /\ hist' = AfterPut(s, key, value)
        /\ threads' = [threads EXCEPT ![s][name] = @ + 1]
        /\ last' = Returned(s, "put", key, value, "Ok", <<>>)
        /\ UNCHANGED <<disk, guard, max_space, node, failed>>

\* a get that cleans up the threads first, as put and delete do
Get_CleansUp(s, key) ==
    /\ pc[s] = "open"
    /\ Joined(workers[s], key_to_name(key))
    /\ workers' = [workers EXCEPT ![s] = clean_up_threads(@, key_to_name(key))]
    /\ last' = Returned(s, "get", key, <<>>, get(s, key).res, get(s, key).value)
    /\ UNCHANGED <<disk, guard, max_space, node, hist, threads, failed, used_space, file_name_map, acc>>

Get(s, key) ==
    /\ pc[s] = "open"
    /\ last' = Returned(s, "get", key, <<>>, get(s, key).res, get(s, key).value)
    /\ UNCHANGED <<disk, guard, max_space, node, hist, threads, failed, used_space, workers,
                   file_name_map, acc>>

Has(s, key) ==
    /\ pc[s] = "open"
    /\ last' = Returned(s, "has", key, <<>>, IF has(s, key) THEN "true" ELSE "false", <<>>)
    /\ UNCHANGED <<disk, guard, max_space, node, hist, threads, failed, used_space, workers,
                   file_name_map, acc>>

KeysOp(s) ==
    /\ pc[s] = "open"
    /\ last' = Returned(s, "keys", <<>>, <<>>, "Ok", keys(s))
    /\ UNCHANGED <<disk, guard, max_space, node, hist, threads, failed, used_space, workers,
                   file_name_map, acc>>

----------------------------------------------------------------------------
(* ChunkStore::new (lock_and_clear_dir, step by step) and Drop *)

\* the least inode no handle is open on and that is not at root/lock
FreshInode ==
    CHOOSE i \in Inodes :
        /\ i # lockFile /\ \A s \in Stores : fd[s] # i
        /\ \A j \in 1..(i - 1) : j = lockFile \/ \E s \in Stores : fd[s] = j

\* closing the handle of s releases the flock it holds
Released(s) ==
    [i \in Inodes |-> IF i = fd[s] /\ lockHolder[i] = s THEN 0 ELSE lockHolder[i]]

\* new returns Err: the lock file handle is dropped
NewFails(s) ==
    /\ pc' = [pc EXCEPT ![s] = "closed"]
    /\ lockHolder' = Released(s)
    /\ fd' = [fd EXCEPT ![s] = 0]
    /\ last' = Returned(s, "new", <<>>, <<>>, "Io", <<>>)

\* fs::create_dir_all(&root)
NewCreateDir(s, max) ==
    /\ pc[s] = "closed"
    /\ dir' = TRUE
    /\ pc' = [pc EXCEPT ![s] = "new_lockfile"]
    /\ max_space' = [max_space EXCEPT ![s] = max]
    /\ UNCHANGED <<lockFile, lockHolder, files, fd, node, hist, used_space, workers,
                   file_name_map, threads, failed, acc, last>>

\* File::create(&lock_file_path): opens the lock file, creating it if absent
NewCreateLockFile(s) ==
    /\ pc[s] = "new_lockfile"
    /\ IF dir
       THEN /\ lockFile' = IF lockFile = 0 THEN FreshInode ELSE lockFile
            /\ fd' = [fd EXCEPT ![s] = lockFile']
            /\ pc' = [pc EXCEPT ![s] = "new_lock"]
            /\ UNCHANGED <<lockHolder, last>>
       ELSE NewFails(s) /\ UNCHANGED lockFile
    /\ UNCHANGED <<dir, files, max_space, node, hist, threads, failed, used_space, workers,
                   file_name_map, acc>>

\* lock_file.try_lock_exclusive()?: fails at once when the inode is locked
NewTryLock(s) ==
    /\ pc[s] = "new_lock"
    /\ IF lockHolder[fd[s]] = 0
       THEN /\ lockHolder' = [lockHolder EXCEPT ![fd[s]] = s]
            /\ pc' = [pc EXCEPT ![s] = "new_probe"]
            /\ UNCHANGED <<fd, last>>
       ELSE NewFails(s)
    /\ UNCHANGED <<dir, lockFile, files, max_space, node, hist, threads, failed, used_space, workers,
                   file_name_map, acc>>

\* File::create(&root.join("00...0"))?: the probe of the longest file name
NewProbe(s) ==
    /\ pc[s] = "new_probe"
    /\ IF dir
       THEN /\ files' = [files EXCEPT ![ProbeName] = File(<<>>)]
            /\ pc' = [pc EXCEPT ![s] = "new_clear"]
            /\ UNCHANGED <<lockHolder, fd, last>>
       ELSE NewFails(s) /\ UNCHANGED files
    /\ UNCHANGED <<dir, lockFile, max_space, node, hist, threads, failed, used_space, workers,
                   file_name_map, acc>>

\* the loop over fs::read_dir(&root) removing every entry but the lock file;
\* then new builds the ChunkStore
NewClear(s) ==
    /\ pc[s] = "new_clear"
    /\ IF dir
       THEN /\ files' = [n \in FileNames |-> NoFile]
            /\ workers' = [Unlink(workers, FileNames) EXCEPT ![s] = EmptyMap]
            /\ used_space' = [used_space EXCEPT ![s] = 0]
            /\ file_name_map' = [file_name_map EXCEPT ![s] = EmptyMap]
            /\ acc' = [acc EXCEPT ![s] = [k \in Keys |-> NotAccepted]]
            /\ pc' = [pc EXCEPT ![s] = "open"]
            /\ last' = Returned(s, "new", <<>>, <<>>, "Ok", <<>>)
            /\ UNCHANGED <<lockHolder, fd>>
       ELSE /\ NewFails(s)
            /\ UNCHANGED <<files, workers, used_space, file_name_map, acc>>
    /\ UNCHANGED <<dir, lockFile, max_space, node, hist, threads, failed>>

\* a drop that joins the threads of the instance before it releases the lock
DropUnlock_AfterJoin(s) ==
    /\ pc[s] = "open"
    /\ \A n \in DOMAIN workers[s] : workers[s][n].pc = "exit"
    /\ lockHolder' = Released(s)
    /\ fd' = [fd EXCEPT ![s] = 0]
    /\ pc' = [pc EXCEPT ![s] = "drop_rmdir"]
    /\ UNCHANGED <<dir, lockFile, files, max_space, node, hist, threads, failed, used_space, workers,
                   file_name_map, acc, last>>

\* drop, first statement: the lock file handle is taken out and dropped
DropUnlock(s) ==
    /\ pc[s] = "open"
    /\ lockHolder' = Released(s)
    /\ fd' = [fd EXCEPT ![s] = 0]
    /\ pc' = [pc EXCEPT ![s] = "drop_rmdir"]
    /\ UNCHANGED <<dir, lockFile, files, max_space, node, hist, threads, failed, used_space, workers,
                   file_name_map, acc, last>>

\* drop, second statement: fs::remove_dir_all(&self.rootdir) walks the directory
\* and removes every entry it reads
DropRemoveDir(s) ==
    /\ pc[s] = "drop_rmdir"
    /\ lockFile' = 0
    /\ files' = [n \in FileNames |-> NoFile]
    /\ workers' = Unlink(workers, FileNames)
    /\ pc' = [pc EXCEPT ![s] = "drop_rmdir_end"]
    /\ UNCHANGED <<dir, lockHolder, fd, max_space, node, hist, threads, failed, used_space,
                   file_name_map, acc, last>>

\* the root has no entry
Empty == lockFile = 0 /\ \A n \in FileNames : ~files[n].exists

\* remove_dir_all ends with the rmdir of the root, which fails on a directory
\* that got an entry since the walk; drop discards the error
DropRemoveDirEnd(s) ==
    /\ pc[s] = "drop_rmdir_end"
    /\ dir' = (dir /\ ~Empty)
    /\ pc' = [pc EXCEPT ![s] = "drop_fields"]
    /\ UNCHANGED <<lockFile, lockHolder, files, fd, max_space, node, hist, threads, failed,
                   used_space, workers, file_name_map, acc, last>>

\* after drop the fields are dropped: every Joiner left in workers joins its thread
DropFields(s) ==
    /\ pc[s] = "drop_fields"
    /\ \A n \in DOMAIN workers[s] : workers[s][n].pc = "exit"
    /\ workers' = [workers EXCEPT ![s] = EmptyMap]
    /\ file_name_map' = [file_name_map EXCEPT ![s] = EmptyMap]
    /\ used_space' = [used_space EXCEPT ![s] = 0]
    /\ acc' = [acc EXCEPT ![s] = [k \in Keys |-> NotAccepted]]
    /\ pc' = [pc EXCEPT ![s] = "closed"]
    /\ last' = Returned(s, "drop", <<>>, <<>>, "Ok", <<>>)
    /\ failed' = [failed EXCEPT ![s] = FALSE]
    /\ UNCHANGED <<disk, fd, max_space, node, hist, threads>>

----------------------------------------------------------------------------
(* One store, built on an empty root: the state after ChunkStore::new *)

\* a node that runs no MaidManager and no Payments
NoManager == [on |-> FALSE]
NoPayments == [on |-> FALSE]

NoCall == [store |-> 0, op |-> "none", key |-> <<>>, value |-> <<>>, res |-> "Ok",
           out |-> <<>>, used |-> 0, stored |-> FALSE, found |-> 0]

Init ==
    /\ dir = TRUE
    /\ lockFile = 1
    /\ lockHolder = [i \in Inodes |-> IF i = 1 THEN 1 ELSE 0]
    /\ files = [n \in FileNames |-> NoFile]
    /\ pc = [s \in Stores |-> IF s = 1 THEN "open" ELSE "closed"]
    /\ fd = [s \in Stores |-> IF s = 1 THEN 1 ELSE 0]
    /\ max_space = [s \in Stores |-> IF s = 1 THEN MaxSpace ELSE 0]
    /\ used_space = [s \in Stores |-> 0]
    /\ workers = [s \in Stores |-> EmptyMap]
    /\ file_name_map = [s \in Stores |-> EmptyMap]
    /\ threads = [s \in Stores |-> [n \in ChunkNames |-> 0]]
    /\ failed = [s \in Stores |-> FALSE]
    /\ hist = Recorded(FALSE)
    /\ acc = [s \in Stores |-> [k \in Keys |-> NotAccepted]]
    /\ last = NoCall
    /\ mm = NoManager
    /\ pay = NoPayments

Next ==
    \/ \E k \in Keys, v \in Values : Put(1, k, v)
    \/ \E k \in Keys : Delete(1, k)
    \/ \E k \in Keys : Get(1, k)
    \/ \E k \in Keys : Has(1, k)
    \/ KeysOp(1)
    \/ \E n \in ChunkNames : WorkerCreate(1, n)
    \/ \E n \in ChunkNames : WorkerWrite(1, n)
    \/ \E n \in ChunkNames : WorkerFail(1, n)
    \/ \E n \in ChunkNames : WorkerFlag(1, n)

Spec == Init /\ [][Next]_vars

----------------------------------------------------------------------------
(* Several instances built on and dropped from the same root path, their steps
   interleaved; each open instance puts and deletes one key *)

GuardKeys == {KeyC}
GuardValues == {<<>>}

\* nothing is built yet; the root is absent, or left over with a stale chunk file
InitGuard ==
    /\ dir \in BOOLEAN
    /\ lockFile = 0
    /\ lockHolder = [i \in Inodes |-> 0]
    /\ files = [n \in FileNames |->
                  IF dir /\ n = key_to_name(KeyC) THEN File(<<1>>) ELSE NoFile]
    /\ pc = [s \in Stores |-> "closed"]
    /\ fd = [s \in Stores |-> 0]
    /\ max_space = [s \in Stores |-> 0]
    /\ used_space = [s \in Stores |-> 0]
    /\ workers = [s \in Stores |-> EmptyMap]
    /\ file_name_map = [s \in Stores |-> EmptyMap]
    /\ threads = [s \in Stores |-> [n \in ChunkNames |-> 0]]
    /\ failed = [s \in Stores |-> FALSE]
    /\ hist = Recorded(FALSE)
    /\ acc = [s \in Stores |-> [k \in Keys |-> NotAccepted]]
    /\ last = NoCall
    /\ mm = NoManager
    /\ pay = NoPayments

NextGuard ==
    \E s \in Stores :
        \/ NewCreateDir(s, MaxSpace)
        \/ NewCreateLockFile(s)
        \/ NewTryLock(s)
        \/ NewProbe(s)
        \/ NewClear(s)
        \/ DropUnlock(s)
        \/ DropRemoveDir(s)
        \/ DropRemoveDirEnd(s)
        \/ DropFields(s)
        \/ \E k \in GuardKeys, v \in GuardValues : Put(s, k, v)
        \/ \E k \in GuardKeys : Delete(s, k)
        \/ \E n \in ChunkNames : WorkerCreate(s, n)
        \/ \E n \in ChunkNames : WorkerWrite(s, n)
        \/ \E n \in ChunkNames : WorkerFail(s, n)
        \/ \E n \in ChunkNames : WorkerFlag(s, n)

SpecGuard == InitGuard /\ [][NextGuard]_vars

----------------------------------------------------------------------------
(* The life of one store: built on an empty root, used, then dropped *)

LifeKeys == {KeyA, KeyC}

NextLife ==
    \/ \E k \in LifeKeys, v \in Values : Put(1, k, v)
    \/ \E k \in LifeKeys : Delete(1, k)
    \/ \E k \in LifeKeys : Get(1, k)
    \/ \E n \in ChunkNames : WorkerCreate(1, n)
    \/ \E n \in ChunkNames : WorkerWrite(1, n)
    \/ \E n \in ChunkNames : WorkerFail(1, n)
    \/ \E n \in ChunkNames : WorkerFlag(1, n)
    \/ DropUnlock(1)
    \/ DropRemoveDir(1)
    \/ DropRemoveDirEnd(1)
    \/ DropFields(1)

SpecLife == Init /\ [][NextLife]_vars

\* one step of the background_put thread of chunk name n
Worker(s, n) ==
    \/ WorkerCreate(s, n)
    \/ WorkerWrite(s, n)
    \/ WorkerFail(s, n)
    \/ WorkerFlag(s, n)

\* the operating system schedules every thread that can run
SpecLifeFair == SpecLife /\ \A n \in ChunkNames : WF_vars(Worker(1, n))

----------------------------------------------------------------------------
(* One open store whose puts and deletes are recorded in hist *)

InitHist ==
    /\ dir = TRUE
    /\ lockFile = 1
    /\ lockHolder = [i \in Inodes |-> IF i = 1 THEN 1 ELSE 0]
    /\ files = [n \in FileNames |-> NoFile]
    /\ pc = [s \in Stores |-> IF s = 1 THEN "open" ELSE "closed"]
    /\ fd = [s \in Stores |-> IF s = 1 THEN 1 ELSE 0]
    /\ max_space = [s \in Stores |-> IF s = 1 THEN MaxSpace ELSE 0]
    /\ used_space = [s \in Stores |-> 0]
    /\ workers = [s \in Stores |-> EmptyMap]
    /\ file_name_map = [s \in Stores |-> EmptyMap]
    /\ threads = [s \in Stores |-> [n \in ChunkNames |-> 0]]
    /\ failed = [s \in Stores |-> FALSE]
    /\ hist = Recorded(TRUE)
    /\ acc = [s \in Stores |-> [k \in Keys |-> NotAccepted]]
    /\ last = NoCall
    /\ mm = NoManager
    /\ pay = NoPayments

NextHist ==
    \/ \E k \in Keys, v \in Values : Put(1, k, v)
    \/ \E k \in Keys : Delete(1, k)
    \/ \E n \in ChunkNames : WorkerCreate(1, n)
    \/ \E n \in ChunkNames : WorkerWrite(1, n)
    \/ \E n \in ChunkNames : WorkerFail(1, n)
    \/ \E n \in ChunkNames : WorkerFlag(1, n)

SpecHist == InitHist /\ [][NextHist]_vars

----------------------------------------------------------------------------
(* Two instances open on one root, the state the drop of a third leaves a pair
   of racing constructors in: instance 2 holds the lock of the unlinked old
   lock file, instance 1 that of the new one; both put and delete one key *)

InitShared ==
    /\ dir = TRUE
    /\ lockFile = 2
    /\ lockHolder = [i \in Inodes |-> IF i = 1 THEN 2 ELSE IF i = 2 THEN 1 ELSE 0]
    /\ files = [n \in FileNames |-> NoFile]
    /\ pc = [s \in Stores |-> IF s \in {1, 2} THEN "open" ELSE "closed"]
    /\ fd = [s \in Stores |-> IF s = 1 THEN 2 ELSE IF s = 2 THEN 1 ELSE 0]
    /\ max_space = [s \in Stores |-> IF s \in {1, 2} THEN MaxSpace ELSE 0]
    /\ used_space = [s \in Stores |-> 0]
    /\ workers = [s \in Stores |-> EmptyMap]
    /\ file_name_map = [s \in Stores |-> EmptyMap]
    /\ threads = [s \in Stores |-> [n \in ChunkNames |-> 0]]
    /\ failed = [s \in Stores |-> FALSE]
    /\ hist = Recorded(FALSE)
    /\ acc = [s \in Stores |-> [k \in Keys |-> NotAccepted]]
    /\ last = NoCall
    /\ mm = NoManager
    /\ pay = NoPayments

NextShared ==
    \E s \in Stores :
        \/ \E k \in GuardKeys, v \in GuardValues : Put(s, k, v)
        \/ \E k \in GuardKeys : Delete(s, k)
        \/ \E n \in ChunkNames : WorkerCreate(s, n)
        \/ \E n \in ChunkNames : WorkerWrite(s, n)
        \/ \E n \in ChunkNames : WorkerFail(s, n)
        \/ \E n \in ChunkNames : WorkerFlag(s, n)

SpecShared == InitShared /\ [][NextShared]_vars

----------------------------------------------------------------------------
(* Properties of one store: quota, put, get, delete, keys *)

\* C1: whenever an operation has returned, used_space() <= max_space().
C1_UsedWithinMax ==
    \A s \in Stores : pc[s] = "open" => used_space[s] <= max_space[s]

\* an accepted put has filled the store to its capacity
C1_Witness ==
    /\ last.op = "put" /\ last.res = "Ok"
    /\ used_space[1] = max_space[1]

\* C2: put(k, v) returns NotEnoughSpace if and only if serialized_size(v) >
\* max_space() - used_space() at the moment of the call (used_space still counting
\* what is stored under k); every other put is accepted.
C2_RejectIffOverQuota ==
    [][(last'.op = "put" /\ Put(1, last'.key, last'.value)) =>
            /\ last'.res = "NotEnoughSpace"
                  <=> Len(serialise(last'.value)) > max_space[1] - used_space[1]
            /\ last'.res # "NotEnoughSpace"
                  => /\ last'.res = "Ok"
                     /\ serialise_key(last'.key) \in DOMAIN file_name_map'[1]]_vars

\* a put on a key that is stored was refused
C2_Witness ==
    /\ last.op = "put" /\ last.res = "NotEnoughSpace"
    /\ has(1, last.key)

\* C3: a put that fails with NotEnoughSpace changes neither used_space, the key
\* index nor any chunk file, and spawns no write worker.
C3_RejectedPutChangesNothing ==
    [][(last'.op = "put" /\ last'.res = "NotEnoughSpace"
          /\ Put(1, last'.key, last'.value)) =>
            /\ used_space' = used_space
            /\ max_space' = max_space
            /\ file_name_map' = file_name_map
            /\ files' = files
            /\ dir' = dir
            /\ \A n \in DOMAIN workers'[1] :
                  n \in DOMAIN workers[1] /\ workers'[1][n] = workers[1][n]]_vars

\* a put was refused while the file of its key is on disk
C3_Witness ==
    /\ last.op = "put" /\ last.res = "NotEnoughSpace"
    /\ files[key_to_name(last.key)].exists

\* C4: for every accepted put(k, v) whose write worker has run to completion, with
\* no later put or delete on k, get(k) returns v.
C4_GetReturnsWrittenValue ==
    \A k \in Keys :
        (acc[1][k].has /\ acc[1][k].written)
            => get(1, k) = [res |-> "Ok", value |-> acc[1][k].value]

\* C5: a get(k) issued at any time after put(k, v) returned Ok, with no put or
\* delete on k in between, returns v.
C5_GetAfterAcceptedPut ==
    (last.op = "get" /\ acc[1][last.key].has)
        => (last.res = "Ok" /\ last.out = acc[1][last.key].value)

\* C6: get(k) returns NotFound whenever no chunk file exists for k's name, in
\* particular for every key never put and every key whose last accepted
\* operation was a delete.
C6_GetNotFound ==
    \A k \in Keys :
        /\ ~files[key_to_name(k)].exists => get(1, k).res = "NotFound"
        /\ ~acc[1][k].has => get(1, k).res = "NotFound"

\* C7: after delete(k) returns Ok, has(k) is false; delete(k) of a key that is not
\* stored returns Ok and leaves used_space, keys() and the chunk files unchanged.
C7_Delete ==
    [][(last'.op = "delete" /\ Delete(1, last'.key)) =>
            /\ last'.res = "Ok"
            /\ serialise_key(last'.key) \notin DOMAIN file_name_map'[1]
            /\ ~has(1, last'.key) =>
                  /\ used_space' = used_space
                  /\ file_name_map' = file_name_map
                  /\ files' = files]_vars

\* C8: keys() is exactly the set of keys whose most recent accepted operation was
\* a put.
C8_KeysAreAcceptedKeys ==
    keys(1) = {k \in Keys : acc[1][k].has}

\* a delete has returned and two keys are left
C8_Witness ==
    /\ last.op = "delete"
    /\ Cardinality(keys(1)) = 2

----------------------------------------------------------------------------
(* Properties of the directory guard *)

ChunkFiles(f) == [n \in ChunkNames |-> f[n]]

\* C9: while a store is open on the root, every further construction on that root
\* fails at once at its try-lock, and the failed attempt leaves the chunk files of
\* the open store as they are.
C9_ConstructionFailsWhileOpen ==
    [][\A s, t \in Stores :
          (s # t /\ pc[t] = "open" /\ pc[s] = "new_lock" /\ pc'[s] # pc[s]) =>
            /\ pc'[s] = "closed"
            /\ last'.op = "new" /\ last'.store = s /\ last'.res # "Ok"
            /\ ChunkFiles(files') = ChunkFiles(files)]_vars

\* C10: at every moment at most one store instance is open on the root directory.
C10_AtMostOneOpen ==
    Cardinality({s \in Stores : pc[s] = "open"}) <= 1

----------------------------------------------------------------------------
(* Teardown *)

\* C11: once the teardown of a store has completed, the root directory no
\* longer exists and no chunk file written by that store is on disk, also when
\* write workers were in flight when the teardown began.
C11_TeardownLeavesNothing ==
    (pc[1] = "closed" /\ last.op = "drop") =>
        /\ ~dir
        /\ \A n \in ChunkNames : ~files[n].exists

----------------------------------------------------------------------------
(* Space accounting *)

RECURSIVE SumOver(_, _)
SumOver(S, size) ==
    IF S = {} THEN 0
    ELSE LET x == CHOOSE y \in S : TRUE IN size[x] + SumOver(S \ {x}, size)

\* C12: when put(k, A) is accepted and the next call, put(k, B), is accepted
\* too, used_space counts only B for k: the credit of A is replaced by
\* serialized_size(B).
C12_OverwriteCountsOnlyNew ==
    [][(/\ last.op = "put" /\ last.res = "Ok"
        /\ last'.op = "put" /\ last'.res = "Ok" /\ last'.key = last.key
        /\ Put(1, last'.key, last'.value)) =>
            used_space'[1] = used_space[1] - Len(serialise(last.value))
                                + Len(serialise(last'.value))]_vars

\* C13: used_space is the sum, over the keys that keys() returns, of the
\* serialized size of the value last accepted for the key.
C13_UsedIsSumOfAccepted ==
    used_space[1] =
        SumOver(keys(1), [k \in Keys |-> Len(serialise(acc[1][k].value))])

C15_PutThenDeleteRestores ==
    [][(/\ last.op = "put" /\ last.res = "Ok" /\ ~last.stored
        /\ last'.op = "delete" /\ last'.key = last.key
        /\ Delete(1, last'.key)) =>
            used_space'[1] = last.used]_vars

----------------------------------------------------------------------------
(* Background writes: the table of workers *)

\* C16: at most one background_put thread of a chunk name is alive at any
\* moment.
C16_OneWorkerPerName ==
    \A n \in ChunkNames : threads[1][n] <= 1

\* a put on a stored key has spawned the one thread of its chunk name
C16_Witness ==
    /\ last.op = "put" /\ last.res = "Ok" /\ last.stored
    /\ threads[1][key_to_name(last.key)] = 1
    /\ workers[1][key_to_name(last.key)].pc = "create"

\* C17: a put or delete on K removes K's chunk file, changes used_space or
\* spawns a thread only when the previous thread of K's chunk name has ended.
C17_ActsAfterPreviousWorkerEnded ==
    [][(/\ \/ last'.op = "put" /\ Put(1, last'.key, last'.value)
           \/ last'.op = "delete" /\ Delete(1, last'.key)
        /\ files' # files \/ used_space' # used_space \/ threads' # threads) =>
            threads[1][key_to_name(last'.key)] = 0]_vars

\* a put has replaced a value whose thread had written it all: the whole old
\* file was debited
C17_Witness ==
    /\ last.op = "put" /\ last.res = "Ok" /\ last.stored
    /\ last.used = Len(serialise(<<1>>))
    /\ used_space[1] = Len(serialise(last.value))
    /\ last.value = <<>>

\* C18: put and delete on K are not held up by the unfinished thread of another
\* chunk name, and get, has and keys are never held up.
C18_NeverWaitsOnOtherNames ==
    pc[1] = "open" =>
        /\ \A k \in Keys :
              threads[1][key_to_name(k)] = 0 =>
                  /\ ENABLED Delete(1, k)
                  /\ \A v \in Values : ENABLED Put(1, k, v)
        /\ \A k \in Keys : ENABLED Get(1, k) /\ ENABLED Has(1, k)
        /\ ENABLED KeysOp(1)

\* a delete has returned while the thread of another chunk name had not started
C18_Witness ==
    /\ last.op = "delete"
    /\ \E n \in DOMAIN workers[1] :
          n # key_to_name(last.key) /\ workers[1][n].pc = "create"

\* C19: a put or delete removes every entry whose flag is set and leaves every
\* entry of another chunk name whose flag is not set; afterwards the table holds
\* the writes unfinished at the scan and the thread just spawned.
C19_ReapsCompletedOnly ==
    [][(\/ last'.op = "put" /\ Put(1, last'.key, last'.value)
        \/ last'.op = "delete" /\ Delete(1, last'.key)) =>
            LET name == key_to_name(last'.key)
                kept == {n \in DOMAIN workers[1] \ {name} : ~workers[1][n].completed}
                spawned == IF last'.op = "put" /\ last'.res = "Ok" THEN {name} ELSE {}
            IN  /\ DOMAIN workers'[1] = kept \cup spawned
                /\ \A n \in kept : workers'[1][n] = workers[1][n]]_vars

\* a put has spawned its thread next to the unfinished thread of another name
C19_Witness ==
    /\ last.op = "put" /\ last.res = "Ok"
    /\ DOMAIN workers[1] = ChunkNames
    /\ \A n \in ChunkNames : ~workers[1][n].completed

\* C20: get, has and keys change nothing of the store: the chunk files,
\* used_space, max_space, the index and the table of workers stay as they were.
C20_ReadsChangeNothing ==
    [][(\/ last'.op = "get" /\ Get(1, last'.key)
        \/ last'.op = "has" /\ Has(1, last'.key)
        \/ last'.op = "keys" /\ KeysOp(1)) =>
            UNCHANGED <<disk, used_space, max_space, node, hist, workers, file_name_map, threads>>]_vars

\* a get has returned next to the finished thread of its key, left in the table
C20_Witness ==
    /\ last.op = "get"
    /\ key_to_name(last.key) \in DOMAIN workers[1]
    /\ workers[1][key_to_name(last.key)].completed

----------------------------------------------------------------------------
(* Failures of the background write *)

\* C21: the overcount a failed background write of put(k, v) leaves in
\* used_space is gone after the next accepted put(k, .) or delete(k): with no
\* other key stored, used_space is then the size of the value held for k.
C21_OvercountEndsAtNextTouch ==
    [][(/\ \/ last'.op = "put" /\ last'.res = "Ok" /\ Put(1, last'.key, last'.value)
           \/ last'.op = "delete" /\ Delete(1, last'.key)
        /\ \A k \in Keys \ {last'.key} : ~acc[1][k].has) =>
            used_space'[1] = IF last'.op = "put" THEN Len(serialise(last'.value)) ELSE 0]_vars

\* C22: whenever the flag of a pending write is set, the chunk file holds the
\* complete accepted value.
C22_FlagMeansWritten ==
    \A n \in DOMAIN workers[1] :
        workers[1][n].completed => files[n] = File(workers[1][n].bytes)

\* C22, amended: a thread raises its flag only when its write attempt has ended,
\* by the last byte written or by an I/O error; whenever the flag of a pending
\* write is set and the write did not fail, the chunk file holds the complete
\* accepted value.
C22_FlagMeansAttemptEnded ==
    \A n \in DOMAIN workers[1] :
        workers[1][n].completed =>
            /\ workers[1][n].pc = "exit"
            /\ WroteAll(workers[1][n]) => files[n] = File(workers[1][n].bytes)

\* the flags of a thread that wrote its value and of one that failed are both set
C22_Witness ==
    /\ DOMAIN workers[1] = ChunkNames
    /\ \A n \in ChunkNames : workers[1][n].completed
    /\ \E n \in ChunkNames : WroteAll(workers[1][n])
    /\ \E n \in ChunkNames : ~WroteAll(workers[1][n])

\* C23: used_space never falls below 0: a removal debits min(length of the file
\* on disk, used_space), also when the file is larger than what the instance
\* has credited.
C23_UsedNeverNegative ==
    \A s \in Stores : used_space[s] >= 0

\* an accepted put has removed a file longer than the used_space of its instance
C23_Witness ==
    /\ last.op = "put" /\ last.res = "Ok"
    /\ last.found > last.used
    /\ used_space[last.store] = Len(serialise(last.value))

----------------------------------------------------------------------------
(* Construction and teardown *)

\* C24: when new(root, max_space) returns Ok the root directory contains the
\* lock file and nothing else, used_space is 0 and keys() is empty; the
\* directory is cleared by an instance that holds the lock.
C24_NewLeavesOnlyLockFile ==
    [][(last'.op = "new" /\ last'.res = "Ok" /\ NewClear(last'.store)) =>
            /\ dir' /\ lockFile' # 0
            /\ \A n \in FileNames : ~files'[n].exists
            /\ used_space'[last'.store] = 0
            /\ file_name_map'[last'.store] = EmptyMap
            /\ lockHolder[fd[last'.store]] = last'.store]_vars

\* C25: teardown releases the lock and removes the root directory without
\* waiting for the write workers of the store: each of its steps can be taken
\* whatever the workers are doing, so the directory can be removed under an
\* unfinished worker.
C25_TeardownDoesNotWait ==
    /\ pc[1] = "open" => ENABLED DropUnlock(1)
    /\ pc[1] = "drop_rmdir" => ENABLED DropRemoveDir(1)
    /\ pc[1] = "drop_rmdir_end" => ENABLED DropRemoveDirEnd(1)

\* the entries of the root have been removed and a thread of the store has not
\* yet created its chunk file
C25_Witness ==
    /\ pc[1] = "drop_rmdir_end"
    /\ \E n \in DOMAIN workers[1] : workers[1][n].pc = "create"

----------------------------------------------------------------------------
(* Progress *)

\* C26: every background_put thread eventually ends with its flag raised,
\* whether its write succeeded or failed, so the join in a put or delete on its
\* chunk name eventually returns.
C26_WorkersTerminate ==
    \A n \in ChunkNames :
        (threads[1][n] > 0) ~>
            (threads[1][n] = 0 /\ Joined(workers[1], n))

\* a thread whose write failed has ended with its flag raised
C26_Witness ==
    /\ failed[1]
    /\ \E n \in DOMAIN workers[1] :
          /\ workers[1][n].completed /\ ~WroteAll(workers[1][n])
          /\ threads[1][n] = 0

----------------------------------------------------------------------------
(* Keys and chunk names *)

\* C27: after delete(k) has returned Ok, get(k) returns NotFound at every later
\* moment until the next accepted put(k, .).
C27_DeletedStaysNotFound ==
    \A k \in Keys : hist.of[1][k].deleted => get(1, k).res = "NotFound"

\* C28: after put(k, B) has been accepted over an accepted put(k, A) with A
\* different from B, get(k) never returns A: it returns B, NotFound or a
\* deserialisation error.
C28_OverwrittenValueNeverRead ==
    \A k \in Keys :
        hist.of[1][k].replaced # {} =>
            /\ get(1, k).res = "Ok" => get(1, k).value = acc[1][k].value
            /\ \A a \in hist.of[1][k].replaced : get(1, k) # [res |-> "Ok", value |-> a]

\* C29: an accepted put(k2, .) or a delete(k2) leaves every other key k1 as it
\* was: has(k1), the value get(k1) returns once k1's write has completed, and
\* the space accounted for k1 (a k2 that is not stored adds its own size, or
\* nothing, to used_space).
C29_KeysAreIndependent ==
    [][(\/ last'.op = "put" /\ last'.res = "Ok" /\ Put(1, last'.key, last'.value)
        \/ last'.op = "delete" /\ Delete(1, last'.key)) =>
            /\ \A k1 \in Keys \ {last'.key} :
                  /\ has(1, k1)' = has(1, k1)
                  /\ (acc[1][k1].has /\ acc[1][k1].written) => get(1, k1)' = get(1, k1)
            /\ ~has(1, last'.key) =>
                  used_space'[1] = used_space[1] +
                      (IF last'.op = "put" THEN Len(serialise(last'.value)) ELSE 0)]_vars

\* C30: whenever an operation has returned, every chunk name in the
\* pending-write table (workers) is the name the index (file_name_map) holds
\* for one of its keys.
C30_PendingNamesAreIndexed ==
    \A s \in Stores :
        DOMAIN workers[s] \subseteq
            {file_name_map[s][sk] : sk \in DOMAIN file_name_map[s]}

\* a delete of one key has returned while the write of another key is pending
C30_Witness ==
    /\ last.op = "delete" /\ last.store = 1
    /\ DOMAIN workers[1] # {}
    /\ \E n \in DOMAIN workers[1] : ~workers[1][n].completed

\* C31: the key index and the disk agree: whenever has(k) is true and no
\* background_put thread for k's chunk name is pending or running, k's chunk
\* file exists and get(k) does not return NotFound.
C31_IndexAndDiskAgree ==
    \A k \in Keys :
        (has(1, k) /\ threads[1][key_to_name(k)] = 0) =>
            /\ files[key_to_name(k)].exists
            /\ get(1, k).res # "NotFound"

(***************************************************************************)
(* One open store whose fs::remove_file may fail (do_delete, mod.rs:254).  *)
(***************************************************************************)
NextIo ==
    \/ \E k \in GuardKeys, v \in Values : Put(1, k, v)
    \/ \E k \in GuardKeys, v \in Values : PutRemoveFails(1, k, v)
    \/ \E k \in GuardKeys : Delete(1, k)
    \/ \E k \in GuardKeys : DeleteRemoveFails(1, k)
    \/ \E n \in ChunkNames : WorkerCreate(1, n)
    \/ \E n \in ChunkNames : WorkerWrite(1, n)
    \/ \E n \in ChunkNames : WorkerFail(1, n)
    \/ \E n \in ChunkNames : WorkerFlag(1, n)

SpecIo == Init /\ [][NextIo]_vars

\* C32: used_space is debited for a file only when the file is removed: a
\* delete(k) that returns Io because remove_file failed leaves used_space()
\* and has(k) as they were, and a put whose removal of the old file fails
\* does not debit the old size (used_space grows by the new size only).
C32_DebitOnlyWhenRemoved ==
    [][/\ \A k \in Keys :
            (last'.op = "delete" /\ last'.res = "Io" /\ last'.key = k
                /\ DeleteRemoveFails(1, k)) =>
                    /\ used_space'[1] = used_space[1]
                    /\ has(1, k)' = has(1, k)
       /\ (last'.op = "put" /\ PutRemoveFails(1, last'.key, last'.value)) =>
            used_space'[1] = used_space[1] + Len(serialise(last'.value))]_vars

\* C33: the teardown of one instance never removes the lock file or a chunk
\* file of a different instance that is open on the same root.
C33_TeardownSparesOtherInstance ==
    [][\A s \in Stores, t \in Stores :
          (s # t /\ pc[t] = "open" /\ DropRemoveDir(s)) =>
              /\ (fd[t] = lockFile) => (lockFile' = lockFile)
              /\ \A sk \in DOMAIN file_name_map[t] :
                    files[file_name_map[t][sk]].exists =>
                        files'[file_name_map[t][sk]].exists]_vars

----------------------------------------------------------------------------
(***************************************************************************)
(* MaidManager (src/src/personas/maid_manager/mod.rs): the persona that    *)
(* keeps the client accounts of a node.  mm holds its fields accounts,     *)
(* request_cache and data_ops_count_cache, the clock, the refresh          *)
(* messages in flight and, for the handler that ran last, its call, its    *)
(* result and the messages it sent through the routing node.               *)
(***************************************************************************)

\* sign::PublicKey of the clients
NumClientKeys == 2
ClientKeys == 1..NumClientKeys

\* utils::client_name_from_key: the XorName of the hash of the key
client_name_from_key(key) == 100 + key

\* utils::client_name of Authority::Client { client_key, .. }
client_name(src) == client_name_from_key(src)

\* the XorNames that a ClientManager authority addresses
ClientNames == {client_name_from_key(k) : k \in ClientKeys}

\* MessageId::zero() and one other message id
MsgIdZero == 0
NumMsgIds == 1
MsgIds == 0..NumMsgIds

\* type tags of MutableData: TYPE_TAG_SESSION_PACKET and one other
TYPE_TAG_SESSION_PACKET == 0
TagOther == 15001
Tags == {TYPE_TAG_SESSION_PACKET, TagOther}

\* the versions a client asks for, the mutations counted, and the clock
MaxVersion == 2
MaxMutations == 1
MaxNow == 90
ClockStep == 30

\* The timeout for cached request from client
PENDING_REQUEST_TIMEOUT_SECS == 60

\* Account::default()
DefaultAccount == [version |-> 0, auth_keys |-> {}, mutations_done |-> 0]

\* Option<u64> and Option<sign::PublicKey>
None == [some |-> FALSE, v |-> 0]
Some(v) == [some |-> TRUE, v |-> v]

\* state of MaidManager::new()
NewManager ==
    [on |-> TRUE,
     accounts |-> EmptyMap,
     request_cache |-> EmptyMap,
     data_ops_count_cache |-> EmptyMap,
     now |-> 0,
     refreshes |-> {},
     call |-> [op |-> "new"],
     res |-> "Ok",
     sent |-> <<>>]

\* a prepare_mutation that lets an authorised key act under the Owner policy
prepare_mutation_AnyPolicy(accounts, src, dst, policy, requester) ==
    IF dst \notin DOMAIN accounts THEN "NoSuchAccount"
    ELSE IF ~(client_name_from_key(src) = dst \/ src \in accounts[dst].auth_keys)
         THEN "AccessDenied"
    ELSE IF requester.some /\ requester.v # src THEN "AccessDenied"
    ELSE "Ok"

\* prepare_mutation: the account of dst exists, src is its owner or (policy Key)
\* one of its auth_keys, and the requester, when given, is the key of src
prepare_mutation(accounts, src, dst, policy, requester) ==
    IF dst \notin DOMAIN accounts THEN "NoSuchAccount"
    ELSE LET account == accounts[dst]
             client_key == src
             allowed == \/ client_name_from_key(client_key) = dst
                        \/ IF policy = "Key" THEN client_key \in account.auth_keys
                                              ELSE FALSE
         IN  IF ~allowed THEN "AccessDenied"
             ELSE IF requester.some /\ requester.v # client_key THEN "AccessDenied"
             ELSE "Ok"

\* a mutate_account that accepts any version
mutate_account_AnyVersion(accounts, src, dst, version, f_res, f_keys) ==
    IF client_name(src) # dst THEN [err |-> "AccessDenied", account |-> DefaultAccount]
    ELSE IF dst \notin DOMAIN accounts
         THEN [err |-> "NoSuchAccount", account |-> DefaultAccount]
    ELSE IF f_res # "Ok" THEN [err |-> f_res, account |-> DefaultAccount]
    ELSE [err |-> "Ok",
          account |-> [accounts[dst] EXCEPT !.auth_keys = f_keys, !.version = version]]

\* mutate_account: a changed copy of the account when src owns it and version
\* is its version plus 1; f_res and f_keys are the result of the closure f
\* and the auth_keys it leaves
mutate_account(accounts, src, dst, version, f_res, f_keys) ==
    IF client_name(src) # dst THEN [err |-> "AccessDenied", account |-> DefaultAccount]
    ELSE IF dst \notin DOMAIN accounts
         THEN [err |-> "NoSuchAccount", account |-> DefaultAccount]
    ELSE IF version # accounts[dst].version + 1
         THEN [err |-> "InvalidSuccessor", account |-> DefaultAccount]
    ELSE IF f_res # "Ok" THEN [err |-> f_res, account |-> DefaultAccount]
    ELSE [err |-> "Ok",
          account |-> [accounts[dst] EXCEPT !.auth_keys = f_keys, !.version = version]]

\* the CachedRequest that insert_cached_request stores
CachedRequest(req_type, src, dst, tag, now) ==
    [req_type |-> req_type, src |-> src, dst |-> dst, tag |-> tag, time_stamp |-> now]

\* insert_cached_request: an entry of the same message id is overwritten
insert_cached_request(cache, req_type, msg_id, src, dst, tag, now) ==
    MapInsert(cache, msg_id, CachedRequest(req_type, src, dst, tag, now))

\* a remove_cached_request that leaves the entry in the cache
remove_cached_request_Kept(cache, msg_id) == cache

\* remove_cached_request: the cache without the entry of msg_id
remove_cached_request(cache, msg_id) == MapRemove(cache, msg_id)

\* messages handed to the routing node
Response(req_type, dst, src, res, msg_id) ==
    [kind |-> "response", req_type |-> req_type, from |-> dst, to |-> src,
     res |-> res, msg_id |-> msg_id, answers |-> FALSE, pending |-> FALSE]
\* the response to a request taken from request_cache; pending tells whether the
\* entry of msg_id is in the cache when the response is handed to the routing node
CachedResponse(req_type, dst, src, res, msg_id, cache) ==
    [kind |-> "response", req_type |-> req_type, from |-> dst, to |-> src,
     res |-> res, msg_id |-> msg_id, answers |-> TRUE,
     pending |-> msg_id \in DOMAIN cache]
Forward(req_type, fwd_src, msg_id) ==
    [kind |-> "request", req_type |-> req_type, from |-> fwd_src, to |-> 0,
     res |-> "Ok", msg_id |-> msg_id, answers |-> FALSE, pending |-> FALSE]
RefreshUpdate(maid_name, account, msg_id) ==
    [kind |-> "refresh", update |-> TRUE, name |-> maid_name, account |-> account,
     msg_id |-> msg_id]
RefreshDelete(maid_name, msg_id) ==
    [kind |-> "refresh", update |-> FALSE, name |-> maid_name, account |-> DefaultAccount,
     msg_id |-> msg_id]

\* the handler returns: its call, its result and the messages it sent are kept
Handled(call, res, sent, accounts, request_cache) ==
    [mm EXCEPT !.call = call, !.res = res, !.sent = sent,
               !.accounts = accounts, !.request_cache = request_cache,
               !.refreshes = IF \E i \in DOMAIN sent : sent[i].kind = "refresh"
                             THEN {sent[i] : i \in {j \in DOMAIN sent :
                                                       sent[j].kind = "refresh"}}
                             ELSE @]

store == <<dir, lockFile, lockHolder, files, pc, fd, max_space, used_space,
           workers, file_name_map, threads, failed, hist, acc, last>>

\* an accounts.entry(src_name) that is always vacant
account_entry_Vacant(accounts, name) == "Vacant"

\* self.accounts.entry(src_name)
account_entry(accounts, name) == IF name \in DOMAIN accounts THEN "Occupied" ELSE "Vacant"

\* a handle_put_mdata that keeps the account it created when the check fails
undo_creation_Skipped(accounts, tag, src_name) == accounts

\* "Undo the account creation": the account of a refused session packet is removed
undo_creation(accounts, tag, src_name) ==
    IF tag = TYPE_TAG_SESSION_PACKET THEN MapRemove(accounts, src_name) ELSE accounts

\* handle_put_mdata; valid and owner_ok are the results of data.validate() and
\* of utils::verify_mdata_owner(&data, &dst_name)
HandlePutMData(src, dst, tag, msg_id, requester, valid, owner_ok) ==
    LET call == [op |-> "put_mdata", src |-> src, dst |-> dst, tag |-> tag,
                 msg_id |-> msg_id, requester |-> requester, version |-> 0,
                 valid |-> valid, owner_ok |-> owner_ok]
        src_name == client_name(src)
        dst_name == dst
        refused(err, accounts) ==
            Handled(call, "Ok", <<Response("PutMData", dst, src, err, msg_id)>>,
                    accounts, mm.request_cache)
        session == tag = TYPE_TAG_SESSION_PACKET
        created == IF session THEN MapInsert(mm.accounts, src_name, DefaultAccount)
                              ELSE mm.accounts
        err == prepare_mutation(created, src, dst, "Key", Some(requester))
    IN  /\ mm.on
        /\ mm' =
             IF ~valid THEN refused("InvalidData", mm.accounts)
             ELSE IF ~owner_ok THEN refused("InvalidOwners", mm.accounts)
             ELSE IF session /\ dst_name # src_name
                  THEN refused("InvalidOperation", mm.accounts)
             ELSE IF session /\ account_entry(mm.accounts, src_name) = "Occupied"
                  THEN refused("AccountExists", mm.accounts)
             ELSE IF err # "Ok" THEN refused(err, undo_creation(created, tag, src_name))
             ELSE Handled(call, "Ok", <<Forward("PutMData", dst, msg_id)>>, created,
                          insert_cached_request(mm.request_cache, "PutMData", msg_id,
                                                src, dst, Some(tag), mm.now))
        /\ UNCHANGED <<store, pay>>

\* handle_mutate_mdata_entries (policy Key, requester given) and
\* handle_change_mdata_owner (policy Owner, no requester)
HandleMutation(req_type, src, dst, msg_id, requester) ==
    LET policy == IF req_type = "ChangeMDataOwner" THEN "Owner" ELSE "Key"
        stated == IF req_type = "ChangeMDataOwner" THEN None ELSE Some(requester)
        call == [op |-> req_type, src |-> src, dst |-> dst, tag |-> TagOther,
                 msg_id |-> msg_id, requester |-> requester, version |-> 0,
                 valid |-> TRUE, owner_ok |-> TRUE]
        err == prepare_mutation(mm.accounts, src, dst, policy, stated)
    IN  /\ mm.on
        /\ mm' =
             IF err # "Ok"
             THEN Handled(call, "Ok", <<Response(req_type, dst, src, err, msg_id)>>,
                          mm.accounts, mm.request_cache)
             ELSE Handled(call, "Ok", <<Forward(req_type, dst, msg_id)>>, mm.accounts,
                          insert_cached_request(mm.request_cache, req_type, msg_id,
                                                src, dst, Some(TagOther), mm.now))
        /\ UNCHANGED <<store, pay>>

\* handle_put_idata; valid is the result of data.validate_size()
HandlePutIData(src, dst, msg_id, valid) ==
    LET call == [op |-> "PutIData", src |-> src, dst |-> dst, tag |-> TagOther,
                 msg_id |-> msg_id, requester |-> src, version |-> 0,
                 valid |-> valid, owner_ok |-> TRUE]
        err == prepare_mutation(mm.accounts, src, dst, "Key", None)
        refused(e) == Handled(call, "Ok", <<Response("PutIData", dst, src, e, msg_id)>>,
                              mm.accounts, mm.request_cache)
    IN  /\ mm.on
        /\ mm' =
             IF ~valid THEN refused("DataTooLarge")
             ELSE IF err # "Ok" THEN refused(err)
             ELSE Handled(call, "Ok", <<Forward("PutIData", dst, msg_id)>>, mm.accounts,
                          insert_cached_request(mm.request_cache, "PutIData", msg_id,
                                                src, dst, None, mm.now))
        /\ UNCHANGED <<store, pay>>

\* handle_ins_auth_key and handle_del_auth_key: the changed copy of the account
\* is sent as a refresh, the stored account is not touched
HandleAuthKey(req_type, src, dst, key, version, msg_id) ==
    LET call == [op |-> req_type, src |-> src, dst |-> dst, tag |-> TagOther,
                 msg_id |-> msg_id, requester |-> key, version |-> version,
                 valid |-> TRUE, owner_ok |-> TRUE]
        keys_now == IF dst \in DOMAIN mm.accounts THEN mm.accounts[dst].auth_keys ELSE {}
        f_res == IF req_type = "DelAuthKey" /\ key \notin keys_now THEN "NoSuchKey" ELSE "Ok"
        f_keys == IF req_type = "DelAuthKey" THEN keys_now \ {key} ELSE keys_now \cup {key}
        res == mutate_account(mm.accounts, src, dst, version, f_res, f_keys)
    IN  /\ mm.on
        /\ mm' =
             IF res.err # "Ok"
             THEN Handled(call, "Ok", <<Response(req_type, dst, src, res.err, msg_id)>>,
                          mm.accounts, mm.request_cache)
             ELSE Handled(call, "Ok", <<RefreshUpdate(dst, res.account, msg_id)>>,
                          mm.accounts,
                          insert_cached_request(mm.request_cache, req_type, msg_id,
                                                src, dst, None, mm.now))
        /\ UNCHANGED <<store, pay>>

Max(a, b) == IF a < b THEN b ELSE a

\* data_ops_count_cache.get(&client_name).map_or(0, ..): an entry lives for
\* PENDING_REQUEST_TIMEOUT_SECS after its insertion
data_ops_count(cache, name, now) ==
    IF name \in DOMAIN cache /\ now - cache[name].at <= PENDING_REQUEST_TIMEOUT_SECS
    THEN cache[name].count ELSE 0

\* handle_mutation_response followed by the rest of handle_<rt>_response, for
\* the response res of the NAE manager to the forwarded request msg_id
HandleMutationResponse(rt, msg_id, res) ==
    LET call == [op |-> "response", src |-> 0, dst |-> 0, tag |-> TagOther,
                 msg_id |-> msg_id, requester |-> 0, version |-> 0,
                 valid |-> TRUE, owner_ok |-> TRUE]
        cache == mm.request_cache
        cached_req == cache[msg_id]
        removed == remove_cached_request(cache, msg_id)
        name == cached_req.dst
        account == mm.accounts[name]
        mutations_done == account.mutations_done
        count_vote == Max(mutations_done,
                          data_ops_count(mm.data_ops_count_cache, name, mm.now)) + 1
        account_copy == [account EXCEPT !.mutations_done = count_vote]
        refresh == IF res = "Ok" THEN <<RefreshUpdate(name, account_copy, MsgIdZero)>>
                                 ELSE <<>>
        exists_elsewhere == /\ rt = "PutMData" /\ res = "DataExists"
                            /\ cached_req.tag = Some(TYPE_TAG_SESSION_PACKET)
        src_name == client_name(cached_req.src)
    IN  /\ mm.on
        /\ IF msg_id \notin DOMAIN cache
           THEN mm' = Handled(call, "FailedToFindCachedRequest", <<>>, mm.accounts, cache)
           ELSE IF name \notin DOMAIN mm.accounts
           THEN mm' = Handled(call, "NoSuchAccount", <<>>, mm.accounts, removed)
           ELSE /\ res = "Ok" => count_vote <= MaxMutations
                /\ mm' = [Handled(call, "Ok",
                            IF exists_elsewhere
                            THEN <<RefreshDelete(src_name, msg_id),
                                   CachedResponse(rt, cached_req.dst, cached_req.src,
                                                  "AccountExists", msg_id, removed)>>
                            ELSE refresh \o
                                 <<CachedResponse(rt, cached_req.dst, cached_req.src,
                                                  res, msg_id, removed)>>,
                            IF exists_elsewhere THEN MapRemove(mm.accounts, src_name)
                                                ELSE mm.accounts,
                            removed)
                          EXCEPT !.data_ops_count_cache =
                                    IF res = "Ok"
                                    THEN MapInsert(@, name, [count |-> count_vote,
                                                             at |-> mm.now])
                                    ELSE @]
        /\ UNCHANGED <<store, pay>>

\* handle_refresh of a refresh message m that accumulated; in_group is
\* routing_node.close_group(maid_name, GROUP_SIZE).is_some()
HandleRefresh(m, in_group) ==
    LET call == [op |-> "refresh", src |-> 0, dst |-> m.name, tag |-> TagOther,
                 msg_id |-> m.msg_id, requester |-> 0, version |-> 0,
                 valid |-> in_group, owner_ok |-> m.update]
        cache == mm.request_cache
        old == mm.accounts[m.name]
        keys_info == IF old.version < m.account.version
                     THEN [old EXCEPT !.version = m.account.version,
                                      !.auth_keys = m.account.auth_keys]
                     ELSE old
        data_info == IF keys_info.mutations_done < m.account.mutations_done
                     THEN [keys_info EXCEPT !.mutations_done = m.account.mutations_done]
                     ELSE keys_info
        updated == IF m.name \in DOMAIN mm.accounts
                   THEN MapInsert(mm.accounts, m.name, data_info)
                   ELSE MapInsert(mm.accounts, m.name, m.account)
        removed == remove_cached_request(cache, m.msg_id)
        done(new) == [new EXCEPT !.refreshes = @ \ {m}]
    IN  /\ mm.on
        /\ m \in mm.refreshes
        /\ mm' =
             IF ~m.update
             THEN done(Handled(call, "Ok", <<>>, MapRemove(mm.accounts, m.name), cache))
             ELSE IF ~in_group THEN done(Handled(call, "Ok", <<>>, mm.accounts, cache))
             ELSE IF m.msg_id \notin DOMAIN cache
             THEN done(Handled(call, "FailedToFindCachedRequest", <<>>, updated, cache))
             ELSE done(Handled(call, "Ok",
                               <<CachedResponse(cache[m.msg_id].req_type,
                                                cache[m.msg_id].dst, cache[m.msg_id].src,
                                                "Ok", m.msg_id, removed)>>,
                               updated, removed))
        /\ UNCHANGED <<store, pay>>

\* the entries of request_cache whose time_stamp.elapsed() > timeout
expired_msg_ids(cache, now) ==
    {id \in DOMAIN cache : now - cache[id].time_stamp > PENDING_REQUEST_TIMEOUT_SECS}

\* handle_tick: remove_expired_requests removes the expired entries, then sends
\* a failure for each of them, in the order the HashMap yielded them
HandleTick ==
    LET call == [op |-> "tick", src |-> 0, dst |-> 0, tag |-> TagOther,
                 msg_id |-> 0, requester |-> 0, version |-> 0,
                 valid |-> TRUE, owner_ok |-> TRUE]
        cache == mm.request_cache
        expired == expired_msg_ids(cache, mm.now)
        left == [id \in DOMAIN cache \ expired |-> cache[id]]
    IN  /\ mm.on
        /\ \E order \in [1..Cardinality(expired) -> expired] :
              /\ \A i, j \in DOMAIN order : order[i] = order[j] => i = j
              /\ mm' = Handled(call, "Ok",
                               [i \in DOMAIN order |->
                                   CachedResponse(cache[order[i]].req_type,
                                                  cache[order[i]].dst, cache[order[i]].src,
                                                  "Request expired.", order[i], left)],
                               mm.accounts, left)
        /\ UNCHANGED <<store, pay>>

\* time passes
AdvanceClock ==
    /\ mm.on
    /\ mm.now + ClockStep <= MaxNow
    /\ mm' = [mm EXCEPT !.now = @ + ClockStep]
    /\ UNCHANGED <<store, pay>>

InitManager ==
    /\ Init!1 /\ Init!2 /\ Init!3 /\ Init!4 /\ Init!5 /\ Init!6 /\ Init!7 /\ Init!8
    /\ Init!9 /\ Init!10 /\ Init!11 /\ Init!12 /\ Init!13 /\ Init!14 /\ Init!15
    /\ mm = NewManager
    /\ pay = NoPayments

\* the message ids that clients give their requests
RequestIds == 1..NumMsgIds

\* account creation: every PutMData, its responses and the refreshes
NextManager ==
    \/ \E src \in ClientKeys, dst \in ClientNames, tag \in Tags, id \in RequestIds,
          requester \in ClientKeys, valid \in BOOLEAN, owner_ok \in BOOLEAN :
            HandlePutMData(src, dst, tag, id, requester, valid, owner_ok)
    \/ \E id \in MsgIds, res \in {"Ok", "DataExists", "NetworkOther"} :
            HandleMutationResponse("PutMData", id, res)
    \/ \E m \in mm.refreshes, in_group \in BOOLEAN : HandleRefresh(m, in_group)

SpecManager == InitManager /\ [][NextManager]_vars

\* a well-formed session packet that the client sends for itself
CreateAccount(src, id) ==
    HandlePutMData(src, client_name(src), TYPE_TAG_SESSION_PACKET, id, src, TRUE, TRUE)

\* authorisation: accounts are created, their auth_keys changed, and mutations
\* arrive from every key for every account
NextAuth ==
    \/ \E src \in ClientKeys, id \in RequestIds : CreateAccount(src, id)
    \/ \E rt \in {"MutateMDataEntries", "ChangeMDataOwner"}, src \in ClientKeys,
          dst \in ClientNames, id \in RequestIds, requester \in ClientKeys :
            HandleMutation(rt, src, dst, id, requester)
    \/ \E rt \in {"InsAuthKey", "DelAuthKey"}, src \in ClientKeys, dst \in ClientNames,
          key \in ClientKeys, version \in 0..MaxVersion, id \in RequestIds :
            HandleAuthKey(rt, src, dst, key, version, id)
    \/ \E m \in mm.refreshes : HandleRefresh(m, TRUE)

SpecAuth == InitManager /\ [][NextAuth]_vars

\* the request cache: requests of the three kinds of answer (mutation
\* response, refresh, expiry), their responses, the tick and the clock
NextCache ==
    \/ \E src \in ClientKeys, id \in RequestIds : CreateAccount(src, id)
    \/ \E src \in ClientKeys, id \in RequestIds :
            HandlePutIData(src, client_name(src), id, TRUE)
    \/ \E src \in ClientKeys, key \in ClientKeys, id \in RequestIds :
            HandleAuthKey("InsAuthKey", src, client_name(src), key, 1, id)
    \/ \E rt \in {"PutIData", "PutMData"}, id \in MsgIds, res \in {"Ok", "DataExists"} :
            HandleMutationResponse(rt, id, res)
    \/ \E m \in mm.refreshes : HandleRefresh(m, TRUE)
    \/ HandleTick
    \/ AdvanceClock

SpecCache == InitManager /\ [][NextCache]_vars

----------------------------------------------------------------------------
(* MaidManager: claims *)

\* the step is the handle_put_mdata call that mm'.call records
PutMDataStep ==
    /\ mm'.call.op = "put_mdata"
    /\ HandlePutMData(mm'.call.src, mm'.call.dst, mm'.call.tag, mm'.call.msg_id,
                      mm'.call.requester, mm'.call.valid, mm'.call.owner_ok)

\* the handler sent one response, the error err, and nothing else
Refused(m, err) ==
    /\ Len(m.sent) = 1
    /\ m.sent[1].kind = "response"
    /\ m.sent[1].res = err

\* C34 (as stated): a PutMData carrying TYPE_TAG_SESSION_PACKET for a client
\* whose account exists is answered with AccountExists, leaves the account
\* unchanged, caches no request and forwards nothing; a PutMData of any other
\* tag for a client without an account is answered with NoSuchAccount.
C34_AccountCreatedAtMostOnce ==
    [][PutMDataStep =>
        /\ (mm'.call.tag = TYPE_TAG_SESSION_PACKET /\ mm'.call.dst \in DOMAIN mm.accounts) =>
              /\ Refused(mm', "AccountExists")
              /\ mm'.accounts = mm.accounts
              /\ mm'.request_cache = mm.request_cache
        /\ (mm'.call.tag # TYPE_TAG_SESSION_PACKET /\ mm'.call.dst \notin DOMAIN mm.accounts) =>
              Refused(mm', "NoSuchAccount")]_vars

\* C34 (amended): a PutMData carrying TYPE_TAG_SESSION_PACKET for a client whose
\* account exists is refused with one error response, leaves the accounts
\* unchanged, caches no request and forwards nothing; the error is
\* AccountExists when the data is valid, its owner is the destination and the
\* client sent it for itself.  A PutMData of any other tag with valid data and
\* owner for a client without an account is answered with NoSuchAccount.
C34_AccountCreatedAtMostOnceValid ==
    [][PutMDataStep =>
        /\ (mm'.call.tag = TYPE_TAG_SESSION_PACKET /\ mm'.call.dst \in DOMAIN mm.accounts) =>
              /\ \E err \in {"InvalidData", "InvalidOwners", "InvalidOperation",
                              "AccountExists"} : Refused(mm', err)
              /\ (/\ mm'.call.valid /\ mm'.call.owner_ok
                  /\ client_name(mm'.call.src) = mm'.call.dst) =>
                        Refused(mm', "AccountExists")
              /\ mm'.accounts = mm.accounts
              /\ mm'.request_cache = mm.request_cache
        /\ (/\ mm'.call.tag # TYPE_TAG_SESSION_PACKET
            /\ mm'.call.dst \notin DOMAIN mm.accounts
            /\ mm'.call.valid /\ mm'.call.owner_ok) =>
              /\ Refused(mm', "NoSuchAccount")
              /\ mm'.accounts = mm.accounts
              /\ mm'.request_cache = mm.request_cache]_vars

\* a second session packet of a client was answered with AccountExists
C34_Witness ==
    /\ mm.on /\ mm.call.op = "put_mdata"
    /\ mm.call.tag = TYPE_TAG_SESSION_PACKET
    /\ Refused(mm, "AccountExists")
    /\ mm.call.dst \in DOMAIN mm.accounts

\* the call passes the checks that come before the accounts entry and finds
\* the entry vacant: handle_put_mdata inserts a new account
CreatesAccount(m, call) ==
    /\ call.tag = TYPE_TAG_SESSION_PACKET
    /\ call.valid /\ call.owner_ok
    /\ client_name(call.src) = call.dst
    /\ client_name(call.src) \notin DOMAIN m.accounts

\* C35: if handle_put_mdata creates a new account for a session packet and the
\* following prepare_mutation check fails, the creation is undone: after the
\* handler the accounts map equals the map before the request, an error
\* response is sent, and no request is cached or forwarded.
C35_FailedCreationIsUndone ==
    [][(/\ PutMDataStep
        /\ CreatesAccount(mm, mm'.call)
        /\ prepare_mutation(MapInsert(mm.accounts, mm'.call.dst, DefaultAccount),
                            mm'.call.src, mm'.call.dst, "Key",
                            Some(mm'.call.requester)) # "Ok") =>
            /\ mm'.accounts = mm.accounts
            /\ \E err \in {"NoSuchAccount", "AccessDenied"} : Refused(mm', err)
            /\ mm'.request_cache = mm.request_cache]_vars

\* a session packet with a requester other than the sender was refused and
\* the client has no account
C35_Witness ==
    /\ mm.on /\ mm.call.op = "put_mdata"
    /\ mm.call.tag = TYPE_TAG_SESSION_PACKET
    /\ mm.call.valid /\ mm.call.owner_ok
    /\ client_name(mm.call.src) = mm.call.dst
    /\ mm.call.requester # mm.call.src
    /\ Refused(mm, "AccessDenied")
    /\ mm.call.dst \notin DOMAIN mm.accounts

\* the responses among the messages a handler sent that answer a cached request
Answers(m) == {i \in DOMAIN m.sent : m.sent[i].kind = "response" /\ m.sent[i].answers}

\* C36: every request stored in the request cache is answered at most once:
\* its entry is removed from the cache before the response is sent, whether
\* the response comes from the mutation response, from the account refresh or
\* from expiry; an entry older than the 60 s timeout is removed on the next
\* tick and answered with a failure; a response for a message id that has no
\* entry fails with FailedToFindCachedRequest and sends nothing.
C36_CachedRequestAnsweredOnce ==
    [][(mm.on /\ mm' # mm /\ ~AdvanceClock) =>
        /\ \A i \in Answers(mm') :
              /\ ~mm'.sent[i].pending
              /\ mm'.sent[i].msg_id \in DOMAIN mm.request_cache
              /\ mm'.sent[i].msg_id \notin DOMAIN mm'.request_cache
              /\ mm'.sent[i].to = mm.request_cache[mm'.sent[i].msg_id].src
              /\ \A j \in Answers(mm') : mm'.sent[j].msg_id = mm'.sent[i].msg_id => j = i
        /\ (mm'.call.op = "tick" /\ HandleTick) =>
              /\ expired_msg_ids(mm'.request_cache, mm'.now) = {}
              /\ \A id \in expired_msg_ids(mm.request_cache, mm.now) :
                    \E i \in Answers(mm') : /\ mm'.sent[i].msg_id = id
                                             /\ mm'.sent[i].res = "Request expired."
        /\ (/\ mm'.call.op \in {"response", "refresh"}
            /\ mm'.call.op = "refresh" => (mm'.call.valid /\ mm'.call.owner_ok)
            /\ mm'.call.msg_id \notin DOMAIN mm.request_cache) =>
              /\ mm'.res = "FailedToFindCachedRequest"
              /\ mm'.sent = <<>>]_vars

\* a tick has answered an expired request with a failure, and the cache no
\* longer holds it
C36_Witness ==
    /\ mm.on /\ mm.call.op = "tick"
    /\ \E i \in Answers(mm) : /\ mm.sent[i].res = "Request expired."
                               /\ mm.sent[i].msg_id \notin DOMAIN mm.request_cache

\* the step is the mutation handler call that mm'.call records
MutationStep ==
    /\ mm'.call.op \in {"MutateMDataEntries", "ChangeMDataOwner"}
    /\ HandleMutation(mm'.call.op, mm'.call.src, mm'.call.dst, mm'.call.msg_id,
                      mm'.call.requester)

\* the handler handed a request for the NAE manager to the routing node
Forwarded(m) == \E i \in DOMAIN m.sent : m.sent[i].kind = "request"

\* C37: a mutation is forwarded to the NAE manager and cached only if an
\* account exists for the destination, the sender is the account owner or,
\* under the Key policy only, holds a key listed in auth_keys, and the stated
\* requester (when given) is the sender's key; under the Owner policy
\* (ChangeMDataOwner) an authorised non-owner key is refused.  Every refused
\* request gets NoSuchAccount or AccessDenied and is neither forwarded nor cached.
C37_ForwardOnlyAuthorised ==
    [][MutationStep =>
        LET c == mm'.call
            key_policy == c.op = "MutateMDataEntries"
            has_account == c.dst \in DOMAIN mm.accounts
            owner == client_name_from_key(c.src) = c.dst
            listed == has_account /\ c.src \in mm.accounts[c.dst].auth_keys
            authorised == /\ has_account
                          /\ owner \/ (key_policy /\ listed)
                          /\ key_policy => c.requester = c.src
        IN  /\ Forwarded(mm') => authorised
            /\ mm'.request_cache # mm.request_cache => authorised
            /\ authorised =>
                  /\ Forwarded(mm')
                  /\ c.msg_id \in DOMAIN mm'.request_cache
                  /\ mm'.request_cache[c.msg_id].src = c.src
            /\ ~authorised =>
                  /\ Refused(mm', IF has_account THEN "AccessDenied" ELSE "NoSuchAccount")
                  /\ mm'.request_cache = mm.request_cache
            /\ mm'.accounts = mm.accounts]_vars

\* a ChangeMDataOwner sent with a key listed in the account's auth_keys, not the
\* owner's, was refused with AccessDenied
C37_Witness ==
    /\ mm.on /\ mm.call.op = "ChangeMDataOwner"
    /\ mm.call.dst \in DOMAIN mm.accounts
    /\ mm.call.src \in mm.accounts[mm.call.dst].auth_keys
    /\ client_name_from_key(mm.call.src) # mm.call.dst
    /\ Refused(mm, "AccessDenied")

\* the step is the handle_ins_auth_key or handle_del_auth_key call of mm'.call
AuthKeyStep ==
    /\ mm'.call.op \in {"InsAuthKey", "DelAuthKey"}
    /\ HandleAuthKey(mm'.call.op, mm'.call.src, mm'.call.dst, mm'.call.requester,
                     mm'.call.version, mm'.call.msg_id)

\* the handler sent a refresh and nothing else
SentRefresh(m) == Len(m.sent) = 1 /\ m.sent[1].kind = "refresh"

\* C38: InsAuthKey and DelAuthKey are accepted only when the requested version
\* is the stored account version plus 1 and sender and account name match:
\* otherwise the reply is InvalidSuccessor, AccessDenied or NoSuchAccount, no
\* refresh is sent and no request is cached; in every case the handler leaves
\* the stored account unchanged.
C38_AuthKeyNeedsNextVersion ==
    [][AuthKeyStep =>
        LET c == mm'.call
            matches == client_name(c.src) = c.dst
            has_account == c.dst \in DOMAIN mm.accounts
            successor == has_account /\ c.version = mm.accounts[c.dst].version + 1
        IN  /\ SentRefresh(mm') =>
                  /\ matches /\ successor
                  /\ mm'.sent[1].account.version = c.version
                  /\ c.msg_id \in DOMAIN mm'.request_cache
            /\ ~(matches /\ successor) =>
                  /\ Refused(mm', IF ~matches THEN "AccessDenied"
                                  ELSE IF ~has_account THEN "NoSuchAccount"
                                  ELSE "InvalidSuccessor")
                  /\ mm'.request_cache = mm.request_cache
                  /\ mm'.refreshes = mm.refreshes
            /\ mm'.accounts = mm.accounts]_vars

\* an InsAuthKey of the owner with a version that is not the successor of the
\* stored one was refused with InvalidSuccessor
C38_Witness ==
    /\ mm.on /\ mm.call.op = "InsAuthKey"
    /\ mm.call.dst \in DOMAIN mm.accounts
    /\ mm.accounts[mm.call.dst].version > 0
    /\ mm.call.version # mm.accounts[mm.call.dst].version + 1
    /\ Refused(mm, "InvalidSuccessor")

----------------------------------------------------------------------------
(***************************************************************************)
(* Payments (src/src/node/elder_duties/key_section/payment/mod.rs): the    *)
(* elder duty that clears the payment of a data write at the section's     *)
(* replica and then forwards the write to the data section.  pay holds     *)
(* what the replica knows (its key set, the payments registered and        *)
(* applied) and the call and result of the last process().                 *)
(***************************************************************************)

\* the payments (debits) that clients attach to their writes
NumPayments == 2
PaymentIds == 1..NumPayments

\* PublicKey::Bls of this section's replicas, and another account
SectionKey == "section"
OtherKey == "other"
Recipients == {SectionKey, OtherKey}

\* state of Payments::new over a replica that knows its key set, or not yet
NewPayments(known) ==
    [on |-> TRUE,
     pk_set |-> known,
     registered |-> {},
     applied |-> {},
     call |-> [op |-> "new"],
     out |-> [kind |-> "none", error |-> "none"]]

\* section_account_id: the section's key when the replica has a key set
section_account_id(p) ==
    IF p.pk_set THEN [ok |-> TRUE, key |-> SectionKey] ELSE [ok |-> FALSE, key |-> ""]

\* a check of the recipient that lets every payment through
recipient_is_not_section_Unchecked(p, to) == FALSE

\* recipient_is_not_section: payment.to() != section, true without a key set
recipient_is_not_section(p, to) ==
    IF section_account_id(p).ok THEN to # section_account_id(p).key ELSE TRUE

\* Some(RunAsNode(ProcessMessaging(..))) built by wrapping.error / wrapping.forward
ErrorToOrigin(error) == [kind |-> "error", error |-> error]
ForwardToData == [kind |-> "forward", error |-> "none"]
NoOperation == [kind |-> "none", error |-> "none"]

\* process(ProcessPayment(msg)); data tells whether msg is a Cmd::Data, id and
\* to are its payment, register_ok and propagated_ok the results of
\* replica.register and replica.receive_propagated
Process(data, id, to, register_ok, propagated_ok) ==
    LET call == [op |-> "process", data |-> data, id |-> id, to |-> to,
                 register_ok |-> register_ok, propagated_ok |-> propagated_ok]
        payment == [id |-> id, to |-> to]
    IN  /\ pay.on
        /\ pay' =
             IF ~data THEN [pay EXCEPT !.call = call, !.out = NoOperation]
             ELSE IF recipient_is_not_section(pay, to)
             THEN [pay EXCEPT !.call = call, !.out = ErrorToOrigin("NoSuchRecipient")]
             ELSE IF ~register_ok
             THEN [pay EXCEPT !.call = call, !.out = ErrorToOrigin("TransferRegistration")]
             ELSE IF ~propagated_ok
             THEN [pay EXCEPT !.call = call, !.registered = @ \cup {payment},
                              !.out = ErrorToOrigin("TransferRegistration")]
             ELSE [pay EXCEPT !.call = call, !.registered = @ \cup {payment},
                              !.applied = @ \cup {payment}, !.out = ForwardToData]
        /\ UNCHANGED <<store, mm>>

\* the replica learns the key set of its section
SectionKeySet ==
    /\ pay.on /\ ~pay.pk_set
    /\ pay' = [pay EXCEPT !.pk_set = TRUE]
    /\ UNCHANGED <<store, mm>>

InitPayments ==
    /\ Init!1 /\ Init!2 /\ Init!3 /\ Init!4 /\ Init!5 /\ Init!6 /\ Init!7 /\ Init!8
    /\ Init!9 /\ Init!10 /\ Init!11 /\ Init!12 /\ Init!13 /\ Init!14 /\ Init!15
    /\ mm = NoManager
    /\ pay = NewPayments(FALSE)

NextPayments ==
    \/ \E data \in BOOLEAN, id \in PaymentIds, to \in Recipients,
          register_ok \in BOOLEAN, propagated_ok \in BOOLEAN :
            Process(data, id, to, register_ok, propagated_ok)
    \/ SectionKeySet

SpecPayments == InitPayments /\ [][NextPayments]_vars

\* the step is the process() call that pay'.call records
ProcessStep ==
    /\ pay'.call.op = "process"
    /\ Process(pay'.call.data, pay'.call.id, pay'.call.to, pay'.call.register_ok,
               pay'.call.propagated_ok)

\* C39: Payments forwards a data write to the data section only if the
\* payment's recipient is this section's account and both registering the
\* payment and applying it at the replica succeeded; in every other case an
\* error is returned to the origin and the write is not forwarded; a payment
\* addressed to another recipient, or made when the section key is unknown,
\* is never registered at the replica.
C39_ForwardOnlyPaidWrites ==
    [][(ProcessStep /\ pay'.call.data) =>
        LET c == pay'.call
            payment == [id |-> c.id, to |-> c.to]
            to_section == pay.pk_set /\ c.to = SectionKey
            cleared == to_section /\ c.register_ok /\ c.propagated_ok
        IN  /\ pay'.out.kind = "forward" <=> cleared
            /\ cleared => payment \in pay'.registered /\ payment \in pay'.applied
            /\ ~cleared => pay'.out.kind = "error"
            /\ ~to_section =>
                  /\ pay'.out = ErrorToOrigin("NoSuchRecipient")
                  /\ pay'.registered = pay.registered
                  /\ pay'.applied = pay.applied
            /\ \A q \in pay'.registered : q.to = SectionKey]_vars

\* a write paid to another account was answered with an error while the
\* replica holds registered payments of its section
C39_Witness ==
    /\ pay.on /\ pay.call.op = "process" /\ pay.call.data
    /\ pay.call.to = OtherKey /\ pay.pk_set
    /\ pay.call.register_ok /\ pay.call.propagated_ok
    /\ pay.out = ErrorToOrigin("NoSuchRecipient")
    /\ pay.registered # {}
    /\ [id |-> pay.call.id, to |-> OtherKey] \notin pay.registered

====
